---- MODULE Spec2Model ----
(***************************************************************************)
(* Session and tab lifecycle of the Quilix browser window                  *)
(* (src/core/modern_browser.py, src/core/browser_tab.py).                  *)
(*                                                                         *)
(* The tab bar is a QTabWidget: a list of pages with a current index.     *)
(* Indices are Qt's: 0-based, -1 when there is no page.  Every page is     *)
(* either a BrowserTab ("tab") or the "+" placeholder ("plus").            *)
(* Text (urls, titles, search input) is kept as strings and taken apart    *)
(* with Len, SubSeq and \o.                                                *)
(***************************************************************************)
EXTENDS Integers, Sequences, FiniteSets, TLC

\* ------------------------------------------------------------- bounds

\* Most BrowserTab pages open at once.
MaxTabs == 2
\* Most pages of the tab widget, placeholders included.
MaxPages == 4
\* Most keys in the notes dict.
MaxNotes == 2
\* Most entries in the history list.
MaxHistory == 3
\* Largest number of minutes entered in the Pomodoro dialog in the model
\* (the dialog itself accepts 1..120).
MaxMinutes == 2
\* Most closed pages whose views are followed after removeTab.
MaxDetached == 1

\* ------------------------------------------------- program constants

HOME_URL == "https://google.com"
PAGE_URL == "home//main.html"
\* QUrl.fromLocalFile(os.path.abspath(PAGE_URL)).toString()
LOCAL_PAGE == "file:///app/home/main.html"
SEARCH_PREFIX == "https://www.google.com/search?q="
\* Seconds in a minute, toggle_pomodoro's factor.
SecondsPerMinute == 60
\* Titles longer than this are shortened on the tab label.
MaxLabelLen == 20
\* self.home_url: the "navigation/home_url" setting, which nothing changes.
home_url == HOME_URL

\* ------------------------------------------------------- text helpers

Char(s, i) == SubSeq(s, i, i)

StartsWith(s, p) == Len(s) >= Len(p) /\ SubSeq(s, 1, Len(p)) = p

\* Python's `sub in s`.
Contains(s, sub) ==
    \E i \in 0..(Len(s) - Len(sub)) : SubSeq(s, i + 1, i + Len(sub)) = sub

\* Least i with s[i..] starting with sub, 0 when there is none.
IndexOf(s, sub) ==
    IF Contains(s, sub)
    THEN CHOOSE i \in 1..(Len(s) - Len(sub) + 1) :
            /\ SubSeq(s, i, i + Len(sub) - 1) = sub
            /\ \A j \in 1..(i - 1) : SubSeq(s, j, j + Len(sub) - 1) # sub
    ELSE 0

UpperAlpha == "ABCDEFGHIJKLMNOPQRSTUVWXYZ"
LowerAlpha == "abcdefghijklmnopqrstuvwxyz"

\* The lower-case letter of every upper-case letter.
LowerMap ==
    [c \in {Char(UpperAlpha, i) : i \in 1..Len(UpperAlpha)} |->
        Char(LowerAlpha, IndexOf(UpperAlpha, c))]

LowerChar(c) == IF c \in DOMAIN LowerMap THEN LowerMap[c] ELSE c

\* Python's str.lower().
RECURSIVE Lower(_)
Lower(s) ==
    IF Len(s) = 0 THEN ""
    ELSE LowerChar(Char(s, 1)) \o Lower(SubSeq(s, 2, Len(s)))

\* Python's str.strip(), for blanks.
RECURSIVE Strip(_)
Strip(s) ==
    IF Len(s) = 0 THEN ""
    ELSE IF Char(s, 1) = " " THEN Strip(SubSeq(s, 2, Len(s)))
    ELSE IF Char(s, Len(s)) = " " THEN Strip(SubSeq(s, 1, Len(s) - 1))
    ELSE s

\* ------------------------------------------------------------- QUrl

\* The authority of a url with a scheme: what follows "://" up to the
\* next "/" or "?"; "" when the text has no "://".
Authority(s) ==
    LET p == IndexOf(s, "://") IN
    IF p = 0 THEN ""
    ELSE LET rest == SubSeq(s, p + 3, Len(s))
             ends == {i \in 1..Len(rest) : Char(rest, i) \in {"/", "?"}}
             stop == IF ends = {} THEN Len(rest) + 1
                     ELSE CHOOSE i \in ends : \A j \in ends : i <= j
         IN SubSeq(rest, 1, stop - 1)

\* QUrl(url) parses: a blank in the host name makes the url invalid.
QUrlValid(s) == Len(s) > 0 /\ ~Contains(Authority(s), " ")

\* QUrl(url).toString(): an invalid or empty QUrl prints as "".
QUrlToString(s) == IF QUrlValid(s) THEN s ELSE ""

\* The url the view of BrowserTab(parent, url) reports right after
\* construction.
InitialUrl(url) == IF url = PAGE_URL THEN LOCAL_PAGE ELSE QUrlToString(url)

\* ---------------------------------------------------------- pages

\* A page of the tab widget: kind, the tab_id, the view's url and title, the
\* label the tab bar shows, the index its title callback captured, the
\* note text, the audio mute flag and the note area's visibility.
PlusPage ==
    [kind |-> "plus", id |-> 0, url |-> "", title |-> "", label |-> "+",
     idx |-> -1, note |-> "", muted |-> FALSE, noteVisible |-> FALSE]

\* BrowserTab(self, url=url), with the note add_tab restores into it.
NewTab(url, id, nts) ==
    [kind |-> "tab", id |-> id, url |-> InitialUrl(url), title |-> "",
     label |-> "", idx |-> -1,
     note |-> IF id \in DOMAIN nts THEN nts[id] ELSE "",
     muted |-> FALSE, noteVisible |-> FALSE]

\* isinstance(page, BrowserTab)
IsBrowserTab(p) == p.kind = "tab"

\* ------------------------------------------------------- QTabWidget
\* A tab widget is a record [tabs |-> sequence of pages, cur |-> index].

Count(w) == Len(w.tabs)

\* self.tabs.widget(i), for a valid i
Widget(w, i) == w.tabs[i + 1]

ValidIndex(w, i) == 0 <= i /\ i < Count(w)

\* self.tabs.addTab(page, ...): the first page of an empty widget becomes
\* current.
QAddTab(w, page) ==
    [tabs |-> Append(w.tabs, page),
     cur  |-> IF Count(w) = 0 THEN 0 ELSE w.cur]

\* self.tabs.removeTab(i): nothing for an index out of range; removing
\* the current page selects its right neighbour, or the new last page.
QRemoveTab(w, i) ==
    IF ~ValidIndex(w, i) THEN w
    ELSE LET rest == SubSeq(w.tabs, 1, i) \o SubSeq(w.tabs, i + 2, Count(w))
             n    == Len(rest)
         IN [tabs |-> rest,
             cur  |-> IF n = 0 THEN -1
                      ELSE IF i < w.cur THEN w.cur - 1
                      ELSE IF i = w.cur THEN (IF i < n THEN i ELSE n - 1)
                      ELSE w.cur]

\* self.tabs.setCurrentIndex(i): an index out of range is ignored.
QSetCurrentIndex(w, i) ==
    IF ValidIndex(w, i) THEN [w EXCEPT !.cur = i] ELSE w

\* self.tabs.clear()
QClear(w) == [tabs |-> <<>>, cur |-> -1]

\* ------------------------------------------------- ModernBrowser

add_plus_tab(w) == QAddTab(w, PlusPage)

\* An add_tab that leaves the current page as it is.
add_tab_unselected(w, url, id, nts) ==
    LET u   == IF url = "" THEN home_url ELSE url
        w1  == IF Count(w) > 0 /\ Widget(w, Count(w) - 1).label = "+"
               THEN QRemoveTab(w, Count(w) - 1)
               ELSE w
        idx == Count(w1)
        w2  == QAddTab(w1, [NewTab(u, id, nts) EXCEPT !.idx = idx])
    IN add_plus_tab(w2)

\* add_tab(url): url "" stands for None.  id is the new tab's tab_id and
\* nts the notes dict.
add_tab(w, url, id, nts) ==
    LET u   == IF url = "" THEN home_url ELSE url
        w1  == IF Count(w) > 0 /\ Widget(w, Count(w) - 1).label = "+"
               THEN QRemoveTab(w, Count(w) - 1)
               ELSE w
        idx == Count(w1)
        w2  == QAddTab(w1, [NewTab(u, id, nts) EXCEPT !.idx = idx])
        w3  == QSetCurrentIndex(w2, idx)
    IN add_plus_tab(w3)

\* close_tab(idx); id is the tab_id of the tab it opens when none is left.
close_tab(w, idx, id, nts) ==
    LET r  == QRemoveTab(w, idx)
        w1 == IF idx # Count(w) - 1
              THEN add_plus_tab(QRemoveTab(r, Count(r) - 1))
              ELSE w
    IN IF Count(w1) <= 1 THEN add_tab(w1, "", id, nts) ELSE w1

\* The label update_tab_title computes.
TabLabel(title) ==
    IF Len(title) > MaxLabelLen THEN SubSeq(title, 1, MaxLabelLen) \o "..."
    ELSE IF title # "" THEN title
    ELSE "New Tab"

\* update_tab_title(title, idx): setTabText ignores an index out of range.
update_tab_title(w, title, idx) ==
    IF ValidIndex(w, idx)
    THEN [w EXCEPT !.tabs[idx + 1].label = TabLabel(title)]
    ELSE w

\* get_current_tab(): the current page when it is a BrowserTab; the
\* result is its index, -1 for None.
get_current_tab(w) ==
    IF ValidIndex(w, w.cur) /\ IsBrowserTab(Widget(w, w.cur)) THEN w.cur ELSE -1

\* save_session's list: title and url of every BrowserTab page, for i in
\* range(count).
RECURSIVE SessionFrom(_, _)
SessionFrom(w, i) ==
    IF i >= Count(w) THEN <<>>
    ELSE (IF IsBrowserTab(Widget(w, i))
          THEN <<[title |-> Widget(w, i).title, url |-> Widget(w, i).url]>>
          ELSE <<>>) \o SessionFrom(w, i + 1)

\* A save_session that adds its list to the stored one instead of replacing
\* it.
save_session_merging(w, st) ==
    [st EXCEPT !.session = st.session \o SessionFrom(w, 0),
               !.session_index = w.cur]

\* save_session(): both settings keys are overwritten.
save_session(w, st) ==
    [st EXCEPT !.session = SessionFrom(w, 0), !.session_index = w.cur]

\* A tab_id no live page and no note carries: os.urandom(8).hex() does not
\* repeat.
FreshId(used) ==
    CHOOSE i \in 1..(Cardinality(used) + 1) : i \notin used

IdsOf(pages) == {pages[k].id : k \in {j \in 1..Len(pages) : pages[j].kind = "tab"}}

\* The loop of restore_session: add_tab(tab["url"]) for each entry.
RECURSIVE RestoreTabs(_, _, _)
RestoreTabs(w, sess, nts) ==
    IF sess = <<>> THEN w
    ELSE RestoreTabs(
            add_tab(w, Head(sess).url, FreshId(IdsOf(w.tabs) \cup DOMAIN nts), nts),
            Tail(sess), nts)

\* restore_session(), with self.session, self.session_index, self.notes.
restore_session(w, sess, index, nts) ==
    LET w0 == QClear(w) IN
    IF sess # <<>>
    THEN QSetCurrentIndex(RestoreTabs(w0, sess, nts), index)
    ELSE add_tab(w0, "", FreshId(DOMAIN nts), nts)

\* A save_history that records nothing.
save_history_never(hist, url, title) == hist

\* A save_history that does not look at the last entry.
save_history_always(hist, url, title) ==
    IF url # ""
    THEN Append(hist, [title |-> IF title # "" THEN title ELSE url, url |-> url])
    ELSE hist

\* save_history(qurl, tab): the list after the call; url is qurl.toString()
\* and title is tab.webview.title().
save_history(hist, url, title) ==
    IF url # "" /\ (hist = <<>> \/ hist[Len(hist)].url # url)
    THEN Append(hist, [title |-> IF title # "" THEN title ELSE url, url |-> url])
    ELSE hist

\* The notes dict after self.notes[tab_id] = text.
NoteSet(nts, id, text) ==
    [k \in (DOMAIN nts) \cup {id} |-> IF k = id THEN text ELSE nts[k]]

EmptyNotes == [k \in {} |-> ""]

\* ------------------------------------------------------ smart search

\* A history loop that runs from the oldest entry on.
HistoryMatchOldest(hist, text) ==
    LET hits == {k \in 1..Len(hist) :
                    \/ Contains(Lower(hist[k].title), Lower(text))
                    \/ Contains(Lower(hist[k].url), Lower(text))}
    IN IF hits = {} THEN 0 ELSE CHOOSE k \in hits : \A j \in hits : k <= j

\* The loop over reversed(self.history): the position of the newest entry
\* whose title or url contains text, 0 when there is none.
HistoryMatch(hist, text) ==
    LET hits == {k \in 1..Len(hist) :
                    \/ Contains(Lower(hist[k].title), Lower(text))
                    \/ Contains(Lower(hist[k].url), Lower(text))}
    IN IF hits = {} THEN 0 ELSE CHOOSE k \in hits : \A j \in hits : j <= k

\* A smart_search that walks the history before it looks for a command.
ResolveHistoryFirst(raw, hist) ==
    LET text == Lower(Strip(raw))
        m    == HistoryMatch(hist, text)
    IN IF text = "" THEN [kind |-> "none", url |-> ""]
       ELSE IF m # 0 THEN [kind |-> "open", url |-> hist[m].url]
       ELSE IF text \in {"note", "mute", "screenshot"}
            THEN [kind |-> text, url |-> ""]
       ELSE IF StartsWith(text, "timer") THEN [kind |-> "timer", url |-> ""]
       ELSE IF Contains(text, ".") \/ StartsWith(text, "http")
            THEN [kind |-> "open",
                  url  |-> IF StartsWith(text, "http") THEN text
                           ELSE "https://" \o text]
       ELSE [kind |-> "open", url |-> SEARCH_PREFIX \o text]

\* A smart_search that does not strip the text.
ResolveUnstripped(raw, hist) ==
    LET text == Lower(raw)
        m    == HistoryMatch(hist, text)
    IN IF text = "" THEN [kind |-> "none", url |-> ""]
       ELSE IF text \in {"note", "mute", "screenshot"}
            THEN [kind |-> text, url |-> ""]
       ELSE IF StartsWith(text, "timer") THEN [kind |-> "timer", url |-> ""]
       ELSE IF m # 0 THEN [kind |-> "open", url |-> hist[m].url]
       ELSE IF Contains(text, ".") \/ StartsWith(text, "http")
            THEN [kind |-> "open",
                  url  |-> IF StartsWith(text, "http") THEN text
                           ELSE "https://" \o text]
       ELSE [kind |-> "open", url |-> SEARCH_PREFIX \o text]

\* What smart_search does with the address bar's text: nothing, one of the
\* four commands, or add_tab(url).
Resolve(raw, hist) ==
    LET text == Lower(Strip(raw))
        m    == HistoryMatch(hist, text)
    IN IF text = "" THEN [kind |-> "none", url |-> ""]
       ELSE IF text \in {"note", "mute", "screenshot"}
            THEN [kind |-> text, url |-> ""]
       ELSE IF StartsWith(text, "timer") THEN [kind |-> "timer", url |-> ""]
       ELSE IF m # 0 THEN [kind |-> "open", url |-> hist[m].url]
       ELSE IF Contains(text, ".") \/ StartsWith(text, "http")
            THEN [kind |-> "open",
                  url  |-> IF StartsWith(text, "http") THEN text
                           ELSE "https://" \o text]
       ELSE [kind |-> "open", url |-> SEARCH_PREFIX \o text]

\* show_notes(): the note area of the current tab is shown or hidden.
show_notes(w) ==
    LET c == get_current_tab(w) IN
    IF c = -1 THEN w
    ELSE [w EXCEPT !.tabs[c + 1].noteVisible = ~w.tabs[c + 1].noteVisible]

\* toggle_mute(): the audio of the current tab is muted or unmuted.
toggle_mute(w) ==
    LET c == get_current_tab(w) IN
    IF c = -1 THEN w
    ELSE [w EXCEPT !.tabs[c + 1].muted = ~w.tabs[c + 1].muted]

\* ---------------------------------------------------------- Pomodoro
\* p is [state, time, active, timeUp]: pomodoro_state, pomodoro_time,
\* whether pomodoro_timer runs, and the "Time's up!" boxes shown since the
\* last start.

\* A toggle_pomodoro that forgets pomodoro_timer.stop().
toggle_pomodoro_keeps_timer(p, mins, ok) ==
    IF p.state = "idle"
    THEN IF ok
         THEN [p EXCEPT !.time = mins * SecondsPerMinute,
                        !.state = "running", !.active = TRUE, !.timeUp = 0]
         ELSE p
    ELSE [p EXCEPT !.state = "idle"]

\* toggle_pomodoro(), with the dialog's answer (mins, ok).
toggle_pomodoro(p, mins, ok) ==
    IF p.state = "idle"
    THEN IF ok
         THEN [p EXCEPT !.time = mins * SecondsPerMinute,
                        !.state = "running", !.active = TRUE, !.timeUp = 0]
         ELSE p
    ELSE [p EXCEPT !.active = FALSE, !.state = "idle"]

\* A pomodoro_tick that forgets pomodoro_timer.stop() when the time is up.
pomodoro_tick_keeps_timer(p) ==
    LET t == p.time - 1 IN
    IF t <= 0
    THEN [p EXCEPT !.time = t, !.state = "idle", !.timeUp = p.timeUp + 1]
    ELSE [p EXCEPT !.time = t]

\* A pomodoro_tick that ends the run one tick late (< for <=).
pomodoro_tick_late(p) ==
    LET t == p.time - 1 IN
    IF t < 0
    THEN [p EXCEPT !.time = t, !.active = FALSE, !.state = "idle",
                   !.timeUp = p.timeUp + 1]
    ELSE [p EXCEPT !.time = t]

\* pomodoro_tick(), the timer's timeout.
pomodoro_tick(p) ==
    LET t == p.time - 1 IN
    IF t <= 0
    THEN [p EXCEPT !.time = t, !.active = FALSE, !.state = "idle",
                   !.timeUp = p.timeUp + 1]
    ELSE [p EXCEPT !.time = t]

\* ------------------------------------------------------------- state

VARIABLES
    tabs,           \* the pages of self.tabs, in display order
    cur,            \* self.tabs.currentIndex()
    notes,          \* self.notes
    history,        \* self.history
    session,        \* self.session, read at startup
    session_index,  \* self.session_index, read at startup
    settings,       \* the QSettings store: session, session_index, history, notes
    history_file,   \* the content of HISTORY_FILE
    phase,          \* "open" while the window lives, "closed" after closeEvent
    pomo,           \* the Pomodoro record p above
    run,            \* the current Pomodoro run: minutes asked, ticks seen, stopped by hand
    detached,       \* pages removeTab took out of self.tabs; nothing deletes them
    searched        \* the text of the last returnPressed of the address bar, as <<text>>

vars == <<tabs, cur, notes, history, session, session_index, settings,
          history_file, phase, pomo, run, detached, searched>>

W == [tabs |-> tabs, cur |-> cur]

\* Urls the engine of a live tab may report with urlChanged.
EngineUrls == {"", HOME_URL, "https://a.b/"}
\* Titles the engine of a live tab may report with titleChanged.
EngineTitles == {"", "A b"}
\* Texts typed into a note area.
NoteTexts == {"", "todo"}

NumTabs(pages) == Cardinality({k \in 1..Len(pages) : pages[k].kind = "tab"})

\* A tab_id for the next BrowserTab.
NextId == FreshId(IdsOf(tabs) \cup IdsOf(detached) \cup DOMAIN notes)

IdlePomodoro == [state |-> "idle", time |-> 0, active |-> FALSE, timeUp |-> 0]
NoRun == [mins |-> 0, ticks |-> 0, stopped |-> FALSE]

\* __init__ on an empty QSettings store.
Init ==
    LET w == restore_session(add_plus_tab(QClear(<<>>)), <<>>, 0, EmptyNotes) IN
    /\ tabs = w.tabs
    /\ cur = w.cur
    /\ notes = EmptyNotes
    /\ history = <<>>
    /\ session = <<>>
    /\ session_index = 0
    /\ settings = [session |-> <<>>, session_index |-> 0,
                   history |-> <<>>, notes |-> EmptyNotes]
    /\ history_file = <<>>
    /\ phase = "open"
    /\ pomo = IdlePomodoro
    /\ run = NoRun
    /\ detached = <<>>
    /\ searched = <<>>

\* ----------------------------------------------------------- actions

\* Room for one more BrowserTab and for the placeholder add_tab puts
\* after it.
CanAdd ==
    /\ NumTabs(tabs) < MaxTabs
    /\ Len(tabs) + (IF tabs[Len(tabs)].label = "+" THEN 1 ELSE 2) <= MaxPages

\* tabBarClicked(i): on_tab_clicked(i), then the tab bar selects the page
\* the mouse was pressed on.
TabBarClicked(i) ==
    /\ phase = "open"
    /\ ValidIndex(W, i)
    /\ i = Count(W) - 1 => CanAdd
    /\ LET w1 == IF i = Count(W) - 1 THEN add_tab(W, home_url, NextId, notes)
                 ELSE W
           w2 == QSetCurrentIndex(w1, i)
       IN tabs' = w2.tabs /\ cur' = w2.cur
    /\ UNCHANGED <<notes, history, session, session_index, settings,
                   history_file, phase, pomo, run, detached, searched>>

\* tabCloseRequested(i), or "Close Tab" of the context menu: close_tab(i).
\* removeTab does not delete the page it takes out; emits says whether the
\* view of a closed BrowserTab goes on reporting urls and titles.
CloseTabThen(i, emits) ==
    /\ phase = "open"
    /\ ValidIndex(W, i)
    /\ emits => /\ i # Count(W) - 1
                /\ IsBrowserTab(Widget(W, i))
                /\ Len(detached) < MaxDetached
    /\ LET w1 == close_tab(W, i, NextId, notes)
       IN tabs' = w1.tabs /\ cur' = w1.cur
    /\ detached' = IF emits THEN Append(detached, Widget(W, i)) ELSE detached
    /\ UNCHANGED <<notes, history, session, session_index, settings,
                   history_file, phase, pomo, run, searched>>

\* close_tab(i) on a page whose view reports nothing afterwards.
CloseTab(i) == CloseTabThen(i, FALSE)

\* duplicate_tab(i), "Duplicate Tab" of the context menu.
DuplicateTab(i) ==
    /\ phase = "open"
    /\ ValidIndex(W, i)
    /\ IsBrowserTab(Widget(W, i))
    /\ CanAdd
    /\ LET w1 == add_tab(W, Widget(W, i).url, NextId, notes)
       IN tabs' = w1.tabs /\ cur' = w1.cur
    /\ UNCHANGED <<notes, history, session, session_index, settings,
                   history_file, phase, pomo, run, detached, searched>>

\* The run record after toggle_pomodoro(mins, ok).
RunAfterToggle(mins, ok) ==
    IF pomo.state = "idle"
    THEN (IF ok THEN [mins |-> mins, ticks |-> 0, stopped |-> FALSE] ELSE run)
    ELSE [run EXCEPT !.stopped = TRUE]

\* returnPressed of the address bar holding raw: smart_search().  mins and
\* ok are the answer of the Pomodoro dialog, should it open.
SmartSearch(raw, mins, ok) ==
    /\ phase = "open"
    /\ LET r == Resolve(raw, history) IN
       /\ r.kind = "open" => CanAdd
       /\ LET w1 == CASE r.kind = "note" -> show_notes(W)
                      [] r.kind = "mute" -> toggle_mute(W)
                      [] r.kind = "open" -> add_tab(W, r.url, NextId, notes)
                      [] OTHER -> W
          IN tabs' = w1.tabs /\ cur' = w1.cur
       /\ pomo' = IF r.kind = "timer" THEN toggle_pomodoro(pomo, mins, ok) ELSE pomo
       /\ run' = IF r.kind = "timer" THEN RunAfterToggle(mins, ok) ELSE run
    /\ searched' = <<raw>>
    /\ UNCHANGED <<notes, history, session, session_index, settings,
                   history_file, phase, detached>>

\* urlChanged(u) of the view of page i: the address bar follows and
\* save_history(u, tab) runs; an accepted entry rewrites HISTORY_FILE.
UrlChanged(i, u) ==
    /\ phase = "open"
    /\ ValidIndex(W, i)
    /\ IsBrowserTab(Widget(W, i))
    /\ u # Widget(W, i).url
    /\ LET h == save_history(history, u, Widget(W, i).title) IN
       /\ Len(h) <= MaxHistory
       /\ history' = h
       /\ history_file' = IF h # history THEN h ELSE history_file
    /\ tabs' = [tabs EXCEPT ![i + 1].url = u]
    /\ UNCHANGED <<cur, notes, session, session_index, settings, phase, pomo, run,
                   detached, searched>>

\* titleChanged(t) of the view of page i: update_tab_title(t, idx) with the
\* index the page got from addTab.
TitleChanged(i, t) ==
    /\ phase = "open"
    /\ ValidIndex(W, i)
    /\ IsBrowserTab(Widget(W, i))
    /\ t # Widget(W, i).title
    /\ LET w1 == [W EXCEPT !.tabs[i + 1].title = t]
           w2 == update_tab_title(w1, t, Widget(W, i).idx)
       IN tabs' = w2.tabs /\ cur' = w2.cur
    /\ UNCHANGED <<notes, history, session, session_index, settings,
                   history_file, phase, pomo, run, detached, searched>>

\* urlChanged(u) of the view of the closed page detached[k]: the lambdas of
\* add_tab still hold the page, so save_history(u, tab) runs;
\* update_address_bar finds that the page is not the current tab.
DetachedUrlChanged(k, u) ==
    /\ phase = "open"
    /\ k \in 1..Len(detached)
    /\ u # detached[k].url
    /\ LET h == save_history(history, u, detached[k].title) IN
       /\ Len(h) <= MaxHistory
       /\ history' = h
       /\ history_file' = IF h # history THEN h ELSE history_file
    /\ detached' = [detached EXCEPT ![k].url = u]
    /\ UNCHANGED <<tabs, cur, notes, session, session_index, settings, phase,
                   pomo, run, searched>>

\* titleChanged(t) of the view of the closed page detached[k]:
\* update_tab_title(t, idx) with the index the page had in the widget.
DetachedTitleChanged(k, t) ==
    /\ phase = "open"
    /\ k \in 1..Len(detached)
    /\ t # detached[k].title
    /\ LET w1 == update_tab_title(W, t, detached[k].idx)
       IN tabs' = w1.tabs /\ cur' = w1.cur
    /\ detached' = [detached EXCEPT ![k].title = t]
    /\ UNCHANGED <<notes, history, session, session_index, settings,
                   history_file, phase, pomo, run, searched>>

\* textChanged of the note area of page i: save_note(tab).
NoteEdited(i, text) ==
    /\ phase = "open"
    /\ ValidIndex(W, i)
    /\ IsBrowserTab(Widget(W, i))
    /\ text # Widget(W, i).note
    /\ Widget(W, i).id \in DOMAIN notes \/ Cardinality(DOMAIN notes) < MaxNotes
    /\ tabs' = [tabs EXCEPT ![i + 1].note = text]
    /\ notes' = NoteSet(notes, Widget(W, i).id, text)
    /\ settings' = [settings EXCEPT !.notes = notes']
    /\ UNCHANGED <<cur, history, session, session_index, history_file, phase,
                   pomo, run, detached, searched>>

\* The Pomodoro button: toggle_pomodoro().
PomodoroButton(mins, ok) ==
    /\ phase = "open"
    /\ pomo' = toggle_pomodoro(pomo, mins, ok)
    /\ run' = RunAfterToggle(mins, ok)
    /\ UNCHANGED <<tabs, cur, notes, history, session, session_index, settings,
                   history_file, phase, detached, searched>>

\* timeout of pomodoro_timer, once a second while it runs.
PomodoroTick ==
    /\ phase = "open"
    /\ pomo.active
    /\ pomo' = pomodoro_tick(pomo)
    /\ run' = [run EXCEPT !.ticks = run.ticks + 1]
    /\ UNCHANGED <<tabs, cur, notes, history, session, session_index, settings,
                   history_file, phase, detached, searched>>

\* closeEvent(): the settings are written and the window goes.
CloseEvent ==
    /\ phase = "open"
    /\ settings' = save_session(W, [settings EXCEPT
                        !.session_index = session_index,
                        !.history = history,
                        !.notes = notes])
    /\ phase' = "closed"
    /\ detached' = <<>>
    /\ searched' = <<>>
    /\ UNCHANGED <<tabs, cur, notes, history, session, session_index,
                   history_file, pomo, run>>

\* The next start: __init__ reads the settings and restores the session.
Startup ==
    /\ phase = "closed"
    /\ session' = settings.session
    /\ session_index' = settings.session_index
    /\ history' = settings.history
    /\ notes' = settings.notes
    /\ LET w == restore_session(add_plus_tab(QClear(W)), settings.session,
                                settings.session_index, settings.notes)
       IN tabs' = w.tabs /\ cur' = w.cur
    /\ pomo' = IdlePomodoro
    /\ run' = NoRun
    /\ phase' = "open"
    /\ UNCHANGED <<settings, history_file, detached, searched>>

\* ---------------------------------------------------- specifications

PageIndices == 0..(MaxPages - 1)

\* Text typed into the address bar while tabs are looked at: a search term.
TabSearchInputs == {"cats"}

\* The window in use: tabs opened, selected, duplicated and closed, pages
\* that report a title, a search, the window closed and started again.
Next ==
    \/ \E i \in PageIndices : TabBarClicked(i)
    \/ \E i \in PageIndices : CloseTab(i)
    \/ \E i \in PageIndices : DuplicateTab(i)
    \/ \E raw \in TabSearchInputs : SmartSearch(raw, 1, FALSE)
    \/ \E i \in PageIndices : TitleChanged(i, "A b")
    \/ CloseEvent
    \/ Startup

Spec == Init /\ [][Next]_vars

\* ------------------------------------------- a store left by an earlier run

\* Before the window exists, with a QSettings store some earlier run or an
\* editor left: stored is the session list, index the selected index.
Stored(stored, index) ==
    /\ tabs = <<>>
    /\ cur = -1
    /\ notes = EmptyNotes
    /\ history = <<>>
    /\ session = <<>>
    /\ session_index = 0
    /\ settings = [session |-> stored, session_index |-> index,
                   history |-> <<>>, notes |-> EmptyNotes]
    /\ history_file = <<>>
    /\ phase = "closed"
    /\ pomo = IdlePomodoro
    /\ run = NoRun
    /\ detached = <<>>
    /\ searched = <<>>

\* The first start on such a store.
FirstStart == tabs = <<>> /\ Startup

\* ----------------------------------------------------------- claims

\* The BrowserTab pages, in display order.
OrdinaryTabs(pages) == SelectSeq(pages, IsBrowserTab)

UrlsOf(pages) == [k \in 1..Len(OrdinaryTabs(pages)) |-> OrdinaryTabs(pages)[k].url]

\* C1: while the window is open, after every operation, the tab widget holds
\* at least one BrowserTab page.
C1_NeverWithoutOrdinaryTab ==
    phase = "open" => NumTabs(tabs) >= 1

\* C7: close_tab on the only BrowserTab page leaves exactly one BrowserTab
\* page, which is a new one (another tab_id) at the home url and is the
\* current page.
C7_ClosingTheOnlyTabOpensHome ==
    [][\A i \in PageIndices :
          (CloseTab(i) /\ NumTabs(tabs) = 1 /\ IsBrowserTab(Widget(W, i)))
          => /\ NumTabs(tabs') = 1
             /\ cur' >= 0 /\ cur' < Len(tabs')
             /\ tabs'[cur' + 1].kind = "tab"
             /\ tabs'[cur' + 1].url = home_url
             /\ tabs'[cur' + 1].id # Widget(W, i).id]_vars

\* C10: a stored session with a non-empty list has an index inside the list.
C10_StoredIndexInsideList ==
    settings.session # <<>>
    => 0 <= settings.session_index /\ settings.session_index < Len(settings.session)

\* The active index of a session: the place of the current page among the
\* BrowserTab pages, counted from 0; -1 when the current page is none of them.
ActiveIndex(pages, c) ==
    IF c >= 0 /\ c < Len(pages) /\ pages[c + 1].kind = "tab"
    THEN NumTabs(SubSeq(pages, 1, c))
    ELSE -1

\* C3: the start after a close brings back the urls of the BrowserTab pages
\* in order, and the active index the window had when it closed with a
\* BrowserTab page current.
C3_SessionRoundTrip ==
    [][(Startup /\ ActiveIndex(tabs, cur) >= 0)
         => /\ UrlsOf(tabs') = UrlsOf(tabs)
            /\ ActiveIndex(tabs', cur') = ActiveIndex(tabs, cur)]_vars

\* ------------------------------------------------ restoring a stored session

\* Entries a stored session may hold, and the stores of up to MaxTabs of them.
StoredEntries == [title : {"", "A b"}, url : {HOME_URL, "https://a.b/"}]
StoredSessions == UNION {[1..n -> StoredEntries] : n \in 0..MaxTabs}
\* Stored indices: below the list, inside it, and past its end.
StoredIndices == (-1)..(MaxTabs + 1)

InitRestore == \E stored \in StoredSessions, index \in StoredIndices :
                  Stored(stored, index)

SpecRestore == InitRestore /\ [][FirstStart]_vars

\* C8: after restore_session on a stored list of n >= 1 entries and any stored
\* index, the BrowserTab pages are the n entries' urls in order and the
\* current index lies in 0..n-1, on a BrowserTab page.
C8_RestoreClampsIndex ==
    (phase = "open" /\ session # <<>>)
    => /\ UrlsOf(tabs) = [k \in 1..Len(session) |-> session[k].url]
       /\ 0 <= cur /\ cur < Len(session)
       /\ IsBrowserTab(Widget(W, cur))

\* ------------------------------------------------ saving the session

\* Urls and titles the pages report while the session is looked at.
SessionUrls == {"https://a.b/"}
SessionTitles == {"A b"}

\* One run of the window, from its start on a stored session to its close:
\* tabs opened, closed and navigated, their titles reported.
\* The stores it may start on: up to MaxTabs entries of the home page.
SessionStores ==
    {s \in StoredSessions :
        \A k \in 1..Len(s) : s[k] = [title |-> "A b", url |-> HOME_URL]}
InitSession == \E stored \in SessionStores : Stored(stored, 0)

NextSession ==
    \/ FirstStart
    \/ TabBarClicked(Len(tabs) - 1)
    \/ \E i \in PageIndices : CloseTab(i)
    \/ \E i \in PageIndices, u \in SessionUrls : UrlChanged(i, u)
    \/ \E i \in PageIndices, t \in SessionTitles : TitleChanged(i, t)
    \/ CloseEvent

SpecSession == InitSession /\ [][NextSession]_vars

\* The entry save_session writes for a page.
EntryOf(p) == [title |-> p.title, url |-> p.url]

\* C9: once the window has closed, the stored session is the title and url
\* of every BrowserTab page in display order, and nothing else: no entry for
\* a placeholder, none left from the session stored before.
C9_SnapshotIsLiveTabs ==
    (phase = "closed" /\ tabs # <<>>)
    => settings.session =
         [k \in 1..Len(OrdinaryTabs(tabs)) |-> EntryOf(OrdinaryTabs(tabs)[k])]

\* A window that started on two stored entries closes with one tab left,
\* navigated and titled, and a placeholder besides.
C9_Witness ==
    /\ phase = "closed"
    /\ Len(session) = 2
    /\ Len(settings.session) = 1
    /\ settings.session[1] \notin {session[1], session[2]}
    /\ settings.session[1].title # ""
    /\ Len(tabs) > 1

\* ------------------------------------------------------------ notes

\* Notes typed into the tabs of a window that opens and closes tabs, closes
\* and starts again.
NextNotes ==
    \/ \E i \in PageIndices, text \in NoteTexts : NoteEdited(i, text)
    \/ TabBarClicked(Len(tabs) - 1)
    \/ \E i \in PageIndices : CloseTab(i)
    \/ CloseEvent
    \/ Startup

SpecNotes == Init /\ [][NextNotes]_vars

\* C4: the start after a close gives the k-th BrowserTab page the note text
\* the k-th BrowserTab page had when the window closed.
C4_NotesRestoredBySlot ==
    [][Startup =>
         \A k \in 1..Len(OrdinaryTabs(tabs)) :
            /\ k <= Len(OrdinaryTabs(tabs'))
            /\ OrdinaryTabs(tabs')[k].note = OrdinaryTabs(tabs)[k].note]_vars

\* ---------------------------------------------------------- history

\* Pages that navigate and report titles, the window closed and started
\* again.
NextHistory ==
    \/ \E i \in PageIndices, u \in EngineUrls : UrlChanged(i, u)
    \/ \E i \in PageIndices, t \in EngineTitles : TitleChanged(i, t)
    \/ CloseEvent
    \/ Startup

SpecHistory == Init /\ [][NextHistory]_vars

\* No two neighbours of hist have the same url.
NoConsecutiveUrl(hist) ==
    \A k \in 1..(Len(hist) - 1) : hist[k].url # hist[k + 1].url

\* hist with one entry for url after it.
OneAppended(hist, after, url) ==
    /\ Len(after) = Len(hist) + 1
    /\ SubSeq(after, 1, Len(hist)) = hist
    /\ after[Len(after)].url = url

\* C2 as stated: save_history appends one entry when the list is empty or
\* its last url differs from the url, leaves the list alone when the last
\* url equals it, and the list never has two neighbours with the same url.
C2_RecordAppendsUnlessLastEqual ==
    [][/\ \A i \in PageIndices, u \in EngineUrls :
            UrlChanged(i, u) =>
              IF history = <<>> \/ history[Len(history)].url # u
              THEN OneAppended(history, history', u)
              ELSE history' = history
       /\ NoConsecutiveUrl(history')]_vars

\* C2, amended: save_history appends one entry when the url is not empty
\* and the list is empty or its last url differs from the url; otherwise
\* it leaves the list alone; the list never has two neighbours with the
\* same url.
C2_RecordSkipsEmptyAndLastEqual ==
    [][/\ \A i \in PageIndices, u \in EngineUrls :
            UrlChanged(i, u) =>
              IF u # "" /\ (history = <<>> \/ history[Len(history)].url # u)
              THEN OneAppended(history, history', u)
              ELSE history' = history
       /\ NoConsecutiveUrl(history')]_vars

\* x, y, x: three entries, the first and the third with the same url.
C2_Witness ==
    /\ Len(history) = 3
    /\ history[1].url = history[3].url
    /\ history[2].url # history[1].url

\* --------------------------------------------------------- Pomodoro

\* The minutes the dialog returns: QInputDialog.getInt(..., 25, 1, 120),
\* cut down to MaxMinutes.
DialogMinutes == 1..MaxMinutes

\* Address bar texts that start with "timer".
TimerInputs == {" Timer "}

\* The button, the address bar command and the timer's ticks.
NextPomodoro ==
    \/ \E mins \in DialogMinutes, ok \in BOOLEAN : PomodoroButton(mins, ok)
    \/ \E raw \in TimerInputs, mins \in DialogMinutes, ok \in BOOLEAN :
          SmartSearch(raw, mins, ok)
    \/ PomodoroTick

SpecPomodoro == Init /\ [][NextPomodoro]_vars

\* C5: a run started with m >= 1 minutes and not stopped by hand is running
\* through its first 60*m - 1 ticks with no "Time's up!" shown; the 60*m-th
\* tick is its last, leaves the state idle and the timer stopped, and
\* "Time's up!" has been shown once.
C5_CompletesAfterSixtyTicksPerMinute ==
    (run.mins >= 1 /\ ~run.stopped)
    => /\ run.ticks < 60 * run.mins
          => pomo.state = "running" /\ pomo.active /\ pomo.timeUp = 0
       /\ run.ticks >= 60 * run.mins
          => /\ run.ticks = 60 * run.mins
             /\ pomo.state = "idle" /\ ~pomo.active /\ pomo.timeUp = 1

\* A run of one minute that has ended on its 60th tick.
C5_Witness ==
    /\ run.mins = 1 /\ ~run.stopped /\ run.ticks = 60
    /\ pomo.state = "idle" /\ pomo.timeUp = 1

\* toggle_pomodoro() called, by the button or by the address bar.
Toggled ==
    \E mins \in DialogMinutes, ok \in BOOLEAN :
       \/ PomodoroButton(mins, ok)
       \/ \E raw \in TimerInputs : SmartSearch(raw, mins, ok)

\* C6 as stated: toggle_pomodoro on a running timer changes nothing: the
\* state stays running and the remaining seconds stay.
C6_StartWhileRunningIsNoOp ==
    [][(Toggled /\ pomo.state = "running")
         => pomo'.state = "running" /\ pomo'.time = pomo.time]_vars

\* C6, amended: toggle_pomodoro on a running timer stops it: the state
\* becomes idle, the timer no longer ticks, the remaining seconds stay and
\* no "Time's up!" is shown.
C6_ToggleWhileRunningStops ==
    [][(Toggled /\ pomo.state = "running")
         => /\ pomo'.state = "idle" /\ ~pomo'.active
            /\ pomo'.time = pomo.time
            /\ pomo'.timeUp = pomo.timeUp]_vars

\* A run stopped by hand after some ticks, with seconds remaining.
C6_Witness ==
    /\ run.stopped /\ run.ticks > 0
    /\ pomo.state = "idle" /\ ~pomo.active /\ pomo.time > 0

\* ------------------------------------------------------ smart search

\* Entries of a history an earlier run stored: a page with a long title, a
\* page that reported no title, which save_history lists under its url, and
\* a page with a short title.
HistoryEntries ==
    {[title |-> "Timer mute note screenshot", url |-> HOME_URL],
     [title |-> "https://a.b/", url |-> "https://a.b/"],
     [title |-> "CATS", url |-> "https://c.d/"]}

\* Histories save_history can have built from them.
StoredHistories ==
    {h \in UNION {[1..n -> HistoryEntries] : n \in 0..MaxHistory} :
        NoConsecutiveUrl(h)}

\* Texts typed into the address bar that are no commands.
SearchInputs ==
    {"", "  ", " A.b ", "http", "httpbin.org", "http://foo", "Cats", "mute n"}

\* Before the window exists, with a stored history and no stored session.
InitSearch ==
    \E hist \in StoredHistories :
       /\ tabs = <<>>
       /\ cur = -1
       /\ notes = EmptyNotes
       /\ history = <<>>
       /\ session = <<>>
       /\ session_index = 0
       /\ settings = [session |-> <<>>, session_index |-> 0,
                      history |-> hist, notes |-> EmptyNotes]
       /\ history_file = <<>>
       /\ phase = "closed"
       /\ pomo = IdlePomodoro
       /\ run = NoRun
       /\ detached = <<>>
       /\ searched = <<>>

\* The window starts and texts are entered in the address bar.
NextSearch ==
    \/ FirstStart
    \/ \E raw \in SearchInputs : SmartSearch(raw, 1, TRUE)

SpecSearch == InitSearch /\ [][NextSearch]_vars

\* text is one of smart_search's commands.
IsCommand(text) ==
    text \in {"note", "mute", "screenshot"} \/ StartsWith(text, "timer")

\* The title or the url of history entry e contains text, whatever the case.
Matches(e, text) ==
    Contains(Lower(e.title), text) \/ Contains(Lower(e.url), text)

\* The step opened one BrowserTab page at url, with a new tab_id, and made
\* it the current page.
OpenedAt(url) ==
    /\ NumTabs(tabs') = NumTabs(tabs) + 1
    /\ cur' >= 0 /\ cur' < Len(tabs')
    /\ tabs'[cur' + 1].kind = "tab"
    /\ tabs'[cur' + 1].id \notin IdsOf(tabs)
    /\ tabs'[cur' + 1].url = url

\* smart_search ran on raw.
Searched(raw) == SmartSearch(raw, 1, TRUE)

\* C11: smart_search on a text that is not empty and no command, and that
\* the title or url of some history entry contains, opens the url of the
\* newest such entry, also when the text has a "." or starts with "http".
C11_HistoryMatchComesFirst ==
    [][\A raw \in SearchInputs :
         LET text == Lower(Strip(raw))
             hits == {k \in 1..Len(history) : Matches(history[k], text)}
         IN (searched' = <<raw>> /\ Searched(raw) /\ text # ""
             /\ ~IsCommand(text) /\ hits # {})
            => \E k \in hits : /\ \A j \in hits : j <= k
                               /\ OpenedAt(history[k].url)]_vars

\* "http" was entered with two entries stored, both matching: the tab opened
\* last shows the url of the newer entry.
C11_Witness ==
    /\ searched = <<"http">>
    /\ Len(history) >= 2
    /\ history[Len(history)].url = "https://a.b/"
    /\ NumTabs(tabs) = 2
    /\ Widget(W, cur).url = "https://a.b/"

\* text begins with a scheme: something, then "://".
HasScheme(text) == IndexOf(text, "://") > 1

\* C12: smart_search on a text that no history entry matches and that has a
\* "." or starts with "http" opens the text itself when it begins with a
\* scheme, and "https://" followed by the text otherwise.
C12_UrlGetsScheme ==
    [][\A raw \in SearchInputs :
         LET text == Lower(Strip(raw))
             hits == {k \in 1..Len(history) : Matches(history[k], text)}
         IN (searched' = <<raw>> /\ Searched(raw) /\ text # ""
             /\ ~IsCommand(text) /\ hits = {}
             /\ (Contains(text, ".") \/ StartsWith(text, "http")))
            => OpenedAt(IF HasScheme(text) THEN text
                        ELSE "https://" \o text)]_vars

\* ------------------------------------------------ smart search commands

\* The four commands as typed, with blanks and capitals.
CommandInputs == {"note", " Mute", "screenshot", "timer 5"}

\* Nothing, or blanks only.
BlankInputs == {"", "  "}

\* The window starts on a stored history; commands and blank texts are
\* entered.
NextCommands ==
    \/ FirstStart
    \/ \E raw \in CommandInputs \cup BlankInputs, ok \in BOOLEAN :
          SmartSearch(raw, 1, ok)

SpecCommands == InitSearch /\ [][NextCommands]_vars

\* Url, tab_id and note of every page, in display order: what a command
\* must leave alone.
Frame(pages) ==
    [k \in 1..Len(pages) |->
        [kind |-> pages[k].kind, id |-> pages[k].id, url |-> pages[k].url,
         title |-> pages[k].title, label |-> pages[k].label,
         note |-> pages[k].note]]

\* C13: smart_search on "note", "mute", "screenshot" or a text starting with
\* "timer" (trimmed, lowercased) runs that command whatever the history
\* holds: note shows or hides the current tab's note area, mute flips its
\* audio, screenshot changes nothing here, timer toggles the Pomodoro timer;
\* no page is opened, none navigates, the current page and the history stay.
C13_CommandsComeFirst ==
    [][\A raw \in CommandInputs, ok \in BOOLEAN :
         LET text == Lower(Strip(raw))
             c    == cur + 1
         IN (searched' = <<raw>> /\ SmartSearch(raw, 1, ok))
            => /\ Frame(tabs') = Frame(tabs)
               /\ cur' = cur
               /\ history' = history
               /\ \A k \in 1..Len(tabs) :
                     /\ tabs'[k].noteVisible =
                          IF text = "note" /\ k = c THEN ~tabs[k].noteVisible
                          ELSE tabs[k].noteVisible
                     /\ tabs'[k].muted =
                          IF text = "mute" /\ k = c THEN ~tabs[k].muted
                          ELSE tabs[k].muted
               /\ IF StartsWith(text, "timer")
                  THEN IF pomo.state = "running" THEN pomo'.state = "idle"
                       ELSE (ok => pomo'.state = "running")
                  ELSE pomo' = pomo]_vars

\* "Mute" was entered while the stored history has entries whose title
\* contains "mute", and the current tab is muted.
C13_Witness ==
    /\ searched = <<" Mute">>
    /\ \E k \in 1..Len(history) : Matches(history[k], "mute")
    /\ Widget(W, cur).muted
    /\ NumTabs(tabs) = 1

\* C14: smart_search on a text that is no command, that no history entry
\* matches, with no "." and not starting with "http", opens the search url
\* for the text as typed, capitals kept.
C14_FallbackSearchesTextAsTyped ==
    [][\A raw \in SearchInputs :
         LET text == Lower(Strip(raw))
             hits == {k \in 1..Len(history) : Matches(history[k], text)}
         IN (searched' = <<raw>> /\ Searched(raw) /\ text # ""
             /\ ~IsCommand(text) /\ hits = {}
             /\ ~Contains(text, ".") /\ ~StartsWith(text, "http"))
            => OpenedAt(SEARCH_PREFIX \o Strip(raw))]_vars

\* C15: smart_search on an empty text or on blanks changes nothing: the
\* pages with their mute flags and note areas, the current page, the
\* history, the notes, the Pomodoro timer and the settings stay.
C15_BlankInputChangesNothing ==
    [][\A raw \in BlankInputs, ok \in BOOLEAN :
         (searched' = <<raw>> /\ SmartSearch(raw, 1, ok))
         => UNCHANGED <<tabs, cur, history, history_file, notes, pomo, run,
                        settings, detached>>]_vars

\* Blanks were entered while the timer runs and the tab is muted, with a
\* history stored.
C15_Witness ==
    /\ searched = <<"  ">>
    /\ pomo.state = "running"
    /\ Widget(W, cur).muted
    /\ history # <<>>

\* ------------------------------------- navigation and the stored session

\* The slot of page i among the BrowserTab pages: its place in the list
\* save_session builds.
SlotOf(pages, i) == Cardinality({k \in 1..(i + 1) : pages[k].kind = "tab"})

\* One run of the window with pages that navigate: tabs opened, urls
\* reported, the window closed.
NextNavigate ==
    \/ FirstStart
    \/ TabBarClicked(Len(tabs) - 1)
    \/ \E i \in PageIndices, u \in EngineUrls : UrlChanged(i, u)
    \/ CloseEvent

SpecNavigate == InitSession /\ [][NextNavigate]_vars

\* C16 as stated: once urlChanged(u) of a tab has been handled, the stored
\* session lists u at the slot of that tab, while the window is still open.
C16_NavigationRewritesSnapshot ==
    [][\A i \in PageIndices, u \in EngineUrls :
          UrlChanged(i, u) =>
            /\ SlotOf(tabs, i) <= Len(settings'.session)
            /\ settings'.session[SlotOf(tabs, i)].url = u]_vars

\* C16, amended: urlChanged(u) of a tab records u in the history (when u is
\* not empty and differs from the last url) and leaves the stored session
\* as it was; closeEvent is what rewrites the stored session, and then it
\* lists the current url of every BrowserTab page at its slot.
C16_NavigationRecordsCloseSnapshots ==
    [][/\ \A i \in PageIndices, u \in EngineUrls :
            UrlChanged(i, u) =>
              /\ settings' = settings
              /\ IF u # "" /\ (history = <<>> \/ history[Len(history)].url # u)
                 THEN OneAppended(history, history', u)
                 ELSE history' = history
       /\ CloseEvent =>
            /\ Len(settings'.session) = NumTabs(tabs)
            /\ \A i \in PageIndices :
                  (ValidIndex(W, i) /\ IsBrowserTab(Widget(W, i)))
                  => settings'.session[SlotOf(tabs, i)].url = Widget(W, i).url]_vars

\* A tab of a window that started on a stored session has navigated: the
\* history has the new url, the stored session still has the old ones.
C16_Witness ==
    /\ phase = "open"
    /\ settings.session # <<>>
    /\ history # <<>>
    /\ history[Len(history)].url = "https://a.b/"
    /\ \E k \in 1..Len(tabs) : tabs[k].kind = "tab" /\ tabs[k].url = "https://a.b/"
    /\ \A k \in 1..Len(settings.session) : settings.session[k].url = HOME_URL

\* ------------------------------------------------ the history at startup

\* The history the next __init__ reads: the "history/items" key of the
\* settings. HISTORY_FILE, which save_history writes, is read by nobody.
LoadedAtStartup == settings.history

\* C17: while the window is open, the history the next start would load is
\* the history in memory, so a start after any accepted entry, with or
\* without a closeEvent before it, finds every entry.
C17_StoredHistoryIsTheLog ==
    phase = "open" => LoadedAtStartup = history

\* ------------------------------------------------------ opening a tab

\* Texts typed into the address bar while tabs are opened: a text with a
\* "." whose url QUrl rejects, so the tab it opens has an empty url.
OpenInputs == {"a b.c"}

\* A window whose tabs are opened, duplicated and closed, whose pages
\* report a title.
NextTabs ==
    \/ TabBarClicked(Len(tabs) - 1)
    \/ \E i \in PageIndices : CloseTab(i)
    \/ \E i \in PageIndices : DuplicateTab(i)
    \/ \E raw \in OpenInputs : SmartSearch(raw, 1, FALSE)
    \/ \E i \in PageIndices : TitleChanged(i, "A b")

SpecTabs == Init /\ [][NextTabs]_vars

\* The step added one BrowserTab page after the BrowserTab pages there
\* were, which are as before, with a tab_id none of them has, and at the
\* home page when url is empty.
AddedLast(url) ==
    LET old == OrdinaryTabs(tabs)
        new == OrdinaryTabs(tabs')
    IN /\ Len(new) = Len(old) + 1
       /\ SubSeq(new, 1, Len(old)) = old
       /\ new[Len(new)].id \notin IdsOf(tabs)
       /\ new[Len(new)].url = IF url = "" THEN home_url ELSE QUrlToString(url)

\* The page the BrowserTab pages end with is the current page.
LastIsCurrent(pages, c) ==
    /\ 0 <= c /\ c < Len(pages)
    /\ pages[c + 1] = OrdinaryTabs(pages)[Len(OrdinaryTabs(pages))]

NextDuplicate ==
    \/ TabBarClicked(Len(tabs) - 1)
    \/ \E i \in PageIndices : CloseTab(i)
    \/ \E i \in PageIndices : DuplicateTab(i)
    \/ \E raw \in OpenInputs : SmartSearch(raw, 1, FALSE)
    \/ \E i \in PageIndices : NoteEdited(i, "todo")

SpecDuplicate == Init /\ [][NextDuplicate]_vars

\* C19: duplicate_tab(i) on a BrowserTab page opens one page whose url is
\* the url of page i, with another tab_id and an empty note; page i is as
\* it was, url and note included.
C19_DuplicateCopiesUrlOnly ==
    [][\A i \in PageIndices :
          DuplicateTab(i) =>
            LET src == Widget(W, i)
                new == OrdinaryTabs(tabs')[Len(OrdinaryTabs(tabs'))]
            IN /\ NumTabs(tabs') = NumTabs(tabs) + 1
               /\ new.url = src.url
               /\ new.id # src.id
               /\ new.note = ""
               /\ tabs'[i + 1] = src]_vars

\* ------------------------------------------------- a closed tab's view

\* Places in the list of closed pages.
DetachedIndices == 1..MaxDetached

\* A window whose tabs are opened and closed, while the views of closed
\* pages may go on reporting urls and titles.
NextClosed ==
    \/ TabBarClicked(Len(tabs) - 1)
    \/ \E i \in PageIndices, emits \in BOOLEAN : CloseTabThen(i, emits)
    \/ \E k \in DetachedIndices, u \in EngineUrls : DetachedUrlChanged(k, u)
    \/ \E k \in DetachedIndices, t \in EngineTitles : DetachedTitleChanged(k, t)

SpecClosed == Init /\ [][NextClosed]_vars

\* The labels of the tab bar, in display order.
Labels(pages) == [k \in 1..Len(pages) |-> pages[k].label]

\* C20: once close_tab has taken a page out, a url or a title its view
\* reports adds nothing to the history and changes no label of the pages
\* that remain.
C20_ClosedTabIsSilent ==
    [][/\ \A k \in DetachedIndices, u \in EngineUrls :
            DetachedUrlChanged(k, u) => history' = history
       /\ \A k \in DetachedIndices, t \in EngineTitles :
            DetachedTitleChanged(k, t) => Labels(tabs') = Labels(tabs)]_vars

\* --------------------------------------------------- routing of titles

\* C21: titleChanged(t) of the view of a BrowserTab page sets the label of
\* that page and of no other page, BrowserTab or placeholder, also after a
\* page before it was closed and the indices moved.
C21_TitleGoesToItsOwnTab ==
    [][\A i \in PageIndices :
          TitleChanged(i, "A b") =>
            /\ tabs'[i + 1].label = TabLabel("A b")
            /\ \A k \in 1..Len(tabs) :
                  k # i + 1 => tabs'[k].label = tabs[k].label]_vars

\* ----------------------------------------------- the "+" placeholder

\* The tab bar ends with one page labelled "+", a placeholder, and every
\* page before it is a BrowserTab.
OnePlusLast(pages) ==
    /\ pages # <<>>
    /\ pages[Len(pages)].kind = "plus"
    /\ pages[Len(pages)].label = "+"
    /\ \A k \in 1..(Len(pages) - 1) : pages[k].kind = "tab"

\* C22: while the window is open, after every handler, the tab bar holds one
\* "+" placeholder, as its last page, after BrowserTab pages only; and
\* close_tab on the index of the placeholder removes no BrowserTab.
C22_OnePlaceholderLast ==
    /\ phase = "open" => OnePlusLast(tabs)
    /\ phase = "open" =>
         LET w == close_tab(W, Count(W) - 1, NextId, notes)
         IN \A k \in 1..Len(tabs) :
               tabs[k].kind = "tab" => \E j \in 1..Len(w.tabs) : w.tabs[j] = tabs[k]

\* ------------------------------------------- the Pomodoro timer's state

\* pomodoro_timer runs exactly while pomodoro_state is "running", and
\* pomodoro_time is never below zero and above zero while running.
PomodoroConsistent ==
    /\ pomo.active <=> pomo.state = "running"
    /\ pomo.time >= 0
    /\ pomo.state = "running" => pomo.time > 0

\* C23: in every state pomodoro_timer is active exactly when the state is
\* running, pomodoro_time is not negative, and it is positive while
\* running; a tick comes only while running and takes one second off; while
\* idle pomodoro_time changes only when toggle_pomodoro starts a run.
C23_PomodoroConsistency ==
    /\ []PomodoroConsistent
    /\ [][/\ PomodoroTick => pomo.state = "running" /\ pomo'.time = pomo.time - 1
          /\ (pomo.state = "idle" /\ pomo'.time # pomo.time)
               => Toggled /\ pomo'.state = "running"]_vars

\* The last second of a run of two minutes: running, one second left.
C23_Witness ==
    /\ pomo.state = "running" /\ pomo.active
    /\ pomo.time = 1
    /\ run.mins = 2 /\ run.ticks = 2 * SecondsPerMinute - 1

====
